---- MODULE Spec2Model ----
(***************************************************************************)
(* ssh_connector.py: the menu-driven state machine of SSHConnector over    *)
(* its server_groups mapping, its username and the persisted JSON file.    *)
(*                                                                         *)
(* A Python dict is an insertion-ordered sequence of [k, v] entries with   *)
(* distinct keys; a Python list of hostnames is a sequence of strings.     *)
(* A JSON document is modelled by its parsed shape; a JSON object keeps    *)
(* its members as written, so it may repeat a key, which a dict cannot.    *)
(***************************************************************************)
EXTENDS Integers, Sequences, FiniteSets, TLC

VARIABLES
    pc,             \* the screen awaiting a selection: start, main, groups,
                    \* detail, manage; or exited, crashed
    group_name,     \* the argument of server_group_menu / manage_server_group
    username,       \* self.username
    server_groups,  \* self.server_groups
    file,           \* the document at self.config_path
    writable,       \* whether open(self.config_path, 'w') succeeds
    output,         \* the last operation run, the text typed to it and what it printed
    exit_code,      \* the process's exit status, -1 while it runs
    edits           \* how many operations have changed the Configuration so far

vars == <<pc, group_name, username, server_groups, file, writable, output, exit_code, edits>>

----------------------------------------------------------------------------
(* Bounds of the model. *)

\* the user makes at most this many changes to the Configuration in a session
MaxEdits == 3

\* what the user types at the text prompts
GroupInputs == {"", "Staging"}
ServerInputs == {"", "staging-1.example.com"}
UsernameInputs == {"", "bob"}
ConfirmInputs == {"", "n", "y", "Y", "yes"}
\* outcomes of subprocess.call: the exit status, or -1 when ssh cannot be launched
SshOutcomes == {0, 255, -1}

----------------------------------------------------------------------------
(* Python values. *)

PyDict(items) == [kind |-> "dict", items |-> items]
\* a list, str, int or None where a mapping is expected; its content is not used
PyOther(kind) == [kind |-> kind, items |-> <<>>]

Entry(k, v) == [k |-> k, v |-> v]

\* list(d.keys())
keys(d) == [i \in 1..Len(d.items) |-> d.items[i].k]

\* k in d
contains(d, k) == \E i \in 1..Len(d.items) : d.items[i].k = k

IndexOf(d, k) == CHOOSE i \in 1..Len(d.items) : d.items[i].k = k

\* d[k], d.get(k, default)
getitem(d, k) == d.items[IndexOf(d, k)].v
get(d, k, default) == IF contains(d, k) THEN getitem(d, k) ELSE default

\* d[k] = v: an existing key keeps its position, a new key goes last
setitem(d, k, v) ==
    IF contains(d, k)
    THEN PyDict([d.items EXCEPT ![IndexOf(d, k)] = Entry(k, v)])
    ELSE PyDict(Append(d.items, Entry(k, v)))

\* the sequence s without its i-th element
RemoveAt(s, i) == SubSeq(s, 1, i - 1) \o SubSeq(s, i + 1, Len(s))

\* del d[k], d.pop(k) (for a key of d)
delitem(d, k) == PyDict(RemoveAt(d.items, IndexOf(d, k)))

\* x in l, for a list l
InList(l, x) == \E i \in 1..Len(l) : l[i] = x

\* l.remove(x): removes the first occurrence of x
list_remove(l, x) == RemoveAt(l, CHOOSE i \in 1..Len(l) : l[i] = x /\ \A j \in 1..(i - 1) : l[j] # x)

----------------------------------------------------------------------------
(* JSON documents: what a path holds. *)

Missing == [kind |-> "missing", hasUser |-> FALSE, user |-> "", hasGroups |-> FALSE,
            groups |-> [kind |-> "null", items |-> <<>>]]
\* a file that json.load rejects with JSONDecodeError
Garbage == [Missing EXCEPT !.kind = "garbage"]
\* a top-level array, string, number or null
JsonOther(kind) == [Missing EXCEPT !.kind = kind]
\* {"server_groups": groups}
JsonGroups(groups) == [Missing EXCEPT !.kind = "object", !.hasGroups = TRUE, !.groups = groups]
\* {"username": user, "server_groups": groups}
JsonConfig(user, groups) == [JsonGroups(groups) EXCEPT !.hasUser = TRUE, !.user = user]
\* {"username": user}
JsonUser(user) == [Missing EXCEPT !.kind = "object", !.hasUser = TRUE, !.user = user]

JsonObject(items) == [kind |-> "object", items |-> items]
JsonValue(kind) == [kind |-> kind, items |-> <<>>]

\* json.load of a value in the place of server_groups: an object becomes a dict,
\* member by member (a repeated key keeps its first place and its last value),
\* an array a list, null None
RECURSIVE load_members(_, _)
load_members(items, d) ==
    IF items = <<>> THEN d
    ELSE load_members(Tail(items), setitem(d, Head(items).k, Head(items).v))

\* json_load keeping the members in the reverse of their order
json_load_reversed(value) ==
    CASE value.kind = "object" ->
            load_members([i \in 1..Len(value.items) |-> value.items[Len(value.items) + 1 - i]],
                         PyDict(<<>>))
      [] value.kind = "array" -> PyOther("list")
      [] value.kind = "null" -> PyOther("None")
      [] OTHER -> PyOther(value.kind)

json_load(value) ==
    CASE value.kind = "object" -> load_members(value.items, PyDict(<<>>))
      [] value.kind = "array" -> PyOther("list")
      [] value.kind = "null" -> PyOther("None")
      [] OTHER -> PyOther(value.kind)

\* json.dump of the value of self.server_groups
json_dump(value) ==
    CASE value.kind = "dict" -> JsonObject(value.items)
      [] value.kind = "list" -> JsonValue("array")
      [] value.kind = "None" -> JsonValue("null")
      [] OTHER -> JsonValue(value.kind)

\* the documents found at the config path at startup and at the paths typed to import
Documents ==
    { Missing, Garbage, JsonOther("array"), JsonUser("bob"),
      JsonGroups(JsonValue("array")),
      JsonGroups(JsonObject(<<Entry("Web", <<"web-1", "web-2">>)>>)),
      JsonConfig("bob", JsonObject(<<Entry("Web", <<"web-1", "web-2", "web-1">>),
                                       Entry("Staging", <<>>)>>)) }

----------------------------------------------------------------------------
(* The terminal: what the last operation was, what was typed, what it printed. *)

Out(op, arg, idx, msg) == [op |-> op, arg |-> arg, idx |-> idx, msg |-> msg]
NoOutput == Out("", "", -1, "")

\* exceptions that no handler of the program catches
Uncaught == {"KeyError", "AttributeError"}

\* a line typed at a menu prompt: a number, or text int() rejects
MenuInputs(options) ==
    {[num |-> FALSE, val |-> 0]} \cup {[num |-> TRUE, val |-> i] : i \in 0..(Len(options) + 1)}

\* display_menu with the upper limit of the range test off by one
display_menu_loose(options, inp) ==
    IF inp.num /\ 1 <= inp.val /\ inp.val <= Len(options) + 1 THEN inp.val - 1 ELSE -1

\* one round of display_menu's loop: the zero-based index, or -1 to prompt again
display_menu(options, inp) ==
    IF inp.num /\ 1 <= inp.val /\ inp.val <= Len(options) THEN inp.val - 1 ELSE -1

----------------------------------------------------------------------------
(* ConfigStore: load, save, default. *)

get_default_username == "user"

\* the document at config_path after save_config() with these values in memory
save_config(user, groups) ==
    IF writable THEN JsonConfig(user, json_dump(groups)) ELSE file

DefaultGroups ==
    PyDict(<< Entry("Development", <<"dev-server-1.example.com", "dev-server-2.example.com">>),
              Entry("Production", <<"prod-server-1.example.com", "prod-server-2.example.com">>),
              Entry("Database", <<"db-server-1.example.com", "db-server-2.example.com">>) >>)

\* create_default_config without its call of save_config
create_default_config_unsaved(msg) ==
    /\ server_groups' = DefaultGroups
    /\ UNCHANGED <<username, file>>
    /\ output' = Out("load_config", "", -1, msg)

create_default_config(msg) ==
    /\ server_groups' = DefaultGroups
    /\ UNCHANGED username
    /\ file' = save_config(username, server_groups')
    /\ output' = Out("load_config", "", -1, msg)

load_config ==
    IF file.kind = "missing" THEN create_default_config("created default")
    ELSE IF file.kind = "garbage" THEN create_default_config("Error loading configuration")
    ELSE IF file.kind # "object"
    THEN \* config.get on a list, str, int or None
         /\ UNCHANGED <<username, server_groups, file>>
         /\ output' = Out("load_config", "", -1, "AttributeError")
    ELSE /\ username' = IF file.hasUser THEN file.user ELSE username
         /\ server_groups' = IF file.hasGroups THEN json_load(file.groups) ELSE PyDict(<<>>)
         /\ UNCHANGED file
         /\ output' = Out("load_config", "", -1, "loaded")

----------------------------------------------------------------------------
(* GroupRegistry: the operations behind the menus. *)

\* change_username without its call of save_config
change_username_unsaved(new_username) ==
    /\ username' = IF new_username # "" THEN new_username ELSE username
    /\ UNCHANGED <<server_groups, file>>
    /\ output' = Out("change_username", new_username, -1,
                     IF new_username # "" THEN "Username changed" ELSE "Username unchanged")

change_username(new_username) ==
    IF new_username # ""
    THEN /\ username' = new_username
         /\ UNCHANGED server_groups
         /\ file' = save_config(username', server_groups)
         /\ output' = Out("change_username", new_username, -1, "Username changed")
    ELSE /\ UNCHANGED <<username, server_groups, file>>
         /\ output' = Out("change_username", new_username, -1, "Username unchanged")

\* add_server_group that takes the new group back when the file cannot be written
add_server_group_rollback(new_group) ==
    IF new_group = ""
    THEN /\ UNCHANGED <<username, server_groups, file>>
         /\ output' = Out("add_server_group", new_group, -1, "Group name cannot be empty")
    ELSE IF contains(server_groups, new_group)
    THEN /\ UNCHANGED <<username, server_groups, file>>
         /\ output' = Out("add_server_group", new_group, -1, "already exists")
    ELSE /\ server_groups' = IF writable THEN setitem(server_groups, new_group, <<>>)
                             ELSE server_groups
         /\ UNCHANGED username
         /\ file' = save_config(username, server_groups')
         /\ output' = Out("add_server_group", new_group, -1, "added successfully")

\* add_server_group without the test for an existing name
add_server_group_unchecked(new_group) ==
    IF new_group = ""
    THEN /\ UNCHANGED <<username, server_groups, file>>
         /\ output' = Out("add_server_group", new_group, -1, "Group name cannot be empty")
    ELSE /\ server_groups' = setitem(server_groups, new_group, <<>>)
         /\ UNCHANGED username
         /\ file' = save_config(username, server_groups')
         /\ output' = Out("add_server_group", new_group, -1, "added successfully")

add_server_group(new_group) ==
    IF new_group = ""
    THEN /\ UNCHANGED <<username, server_groups, file>>
         /\ output' = Out("add_server_group", new_group, -1, "Group name cannot be empty")
    ELSE IF contains(server_groups, new_group)
    THEN /\ UNCHANGED <<username, server_groups, file>>
         /\ output' = Out("add_server_group", new_group, -1, "already exists")
    ELSE /\ server_groups' = setitem(server_groups, new_group, <<>>)
         /\ UNCHANGED username
         /\ file' = save_config(username, server_groups')
         /\ output' = Out("add_server_group", new_group, -1, "added successfully")

\* add_server without its call of save_config
add_server_unsaved(group, server) ==
    IF server = ""
    THEN /\ UNCHANGED <<username, server_groups, file>>
         /\ output' = Out("add_server", server, -1, "Server cannot be empty")
    ELSE IF ~contains(server_groups, group)
    THEN /\ UNCHANGED <<username, server_groups, file>>
         /\ output' = Out("add_server", server, -1, "KeyError")
    ELSE IF InList(getitem(server_groups, group), server)
    THEN /\ UNCHANGED <<username, server_groups, file>>
         /\ output' = Out("add_server", server, -1, "already exists")
    ELSE /\ server_groups' = setitem(server_groups, group,
                                     Append(getitem(server_groups, group), server))
         /\ UNCHANGED <<username, file>>
         /\ output' = Out("add_server", server, -1, "added")

\* add_server without the test for a hostname the list already holds
add_server_unchecked(group, server) ==
    IF server = ""
    THEN /\ UNCHANGED <<username, server_groups, file>>
         /\ output' = Out("add_server", server, -1, "Server cannot be empty")
    ELSE IF ~contains(server_groups, group)
    THEN /\ UNCHANGED <<username, server_groups, file>>
         /\ output' = Out("add_server", server, -1, "KeyError")
    ELSE /\ server_groups' = setitem(server_groups, group,
                                     Append(getitem(server_groups, group), server))
         /\ UNCHANGED username
         /\ file' = save_config(username, server_groups')
         /\ output' = Out("add_server", server, -1, "added")

add_server(group, server) ==
    IF server = ""
    THEN /\ UNCHANGED <<username, server_groups, file>>
         /\ output' = Out("add_server", server, -1, "Server cannot be empty")
    ELSE IF ~contains(server_groups, group)
    THEN \* self.server_groups[group_name] of a key that is gone
         /\ UNCHANGED <<username, server_groups, file>>
         /\ output' = Out("add_server", server, -1, "KeyError")
    ELSE IF InList(getitem(server_groups, group), server)
    THEN /\ UNCHANGED <<username, server_groups, file>>
         /\ output' = Out("add_server", server, -1, "already exists")
    ELSE /\ server_groups' = setitem(server_groups, group,
                                     Append(getitem(server_groups, group), server))
         /\ UNCHANGED username
         /\ file' = save_config(username, server_groups')
         /\ output' = Out("add_server", server, -1, "added")

\* remove_server that deletes the entry at the chosen index, del servers[choice]
remove_server_at_index(group, inp) ==
    IF ~contains(server_groups, group)
    THEN /\ UNCHANGED <<username, server_groups, file>>
         /\ output' = Out("remove_server", "", -1, "KeyError")
    ELSE IF getitem(server_groups, group) = <<>>
    THEN /\ UNCHANGED <<username, server_groups, file>>
         /\ output' = Out("remove_server", "", -1, "No servers")
    ELSE LET servers == getitem(server_groups, group)
             options == Append(servers, "Cancel")
             choice == display_menu(options, inp)
         IN  /\ choice >= 0
             /\ IF choice < Len(servers)
                THEN /\ server_groups' = setitem(server_groups, group,
                                                 RemoveAt(servers, choice + 1))
                     /\ UNCHANGED username
                     /\ file' = save_config(username, server_groups')
                     /\ output' = Out("remove_server", servers[choice + 1], choice, "removed")
                ELSE /\ UNCHANGED <<username, server_groups, file>>
                     /\ output' = Out("remove_server", "", choice, "")

\* inp is the line typed at the removal list's prompt
remove_server(group, inp) ==
    IF ~contains(server_groups, group)
    THEN /\ UNCHANGED <<username, server_groups, file>>
         /\ output' = Out("remove_server", "", -1, "KeyError")
    ELSE IF getitem(server_groups, group) = <<>>
    THEN /\ UNCHANGED <<username, server_groups, file>>
         /\ output' = Out("remove_server", "", -1, "No servers")
    ELSE LET servers == getitem(server_groups, group)
             options == Append(servers, "Cancel")
             choice == display_menu(options, inp)
         IN  /\ choice >= 0
             /\ IF choice < Len(servers)
                THEN /\ server_groups' = setitem(server_groups, group,
                                                 list_remove(servers, servers[choice + 1]))
                     /\ UNCHANGED username
                     /\ file' = save_config(username, server_groups')
                     /\ output' = Out("remove_server", servers[choice + 1], choice, "removed")
                ELSE /\ UNCHANGED <<username, server_groups, file>>
                     /\ output' = Out("remove_server", "", choice, "")

\* rename_server_group without the test for a name already in use
rename_server_group_unchecked(group, new_name) ==
    IF new_name = ""
    THEN /\ UNCHANGED <<username, server_groups, file>>
         /\ output' = Out("rename_server_group", new_name, -1, "Rename cancelled")
    ELSE IF ~contains(server_groups, group)
    THEN /\ UNCHANGED <<username, server_groups, file>>
         /\ output' = Out("rename_server_group", new_name, -1, "KeyError")
    ELSE /\ server_groups' = setitem(delitem(server_groups, group), new_name,
                                     getitem(server_groups, group))
         /\ UNCHANGED username
         /\ file' = save_config(username, server_groups')
         /\ output' = Out("rename_server_group", new_name, -1, "renamed")

rename_server_group(group, new_name) ==
    IF new_name = ""
    THEN /\ UNCHANGED <<username, server_groups, file>>
         /\ output' = Out("rename_server_group", new_name, -1, "Rename cancelled")
    ELSE IF contains(server_groups, new_name)
    THEN /\ UNCHANGED <<username, server_groups, file>>
         /\ output' = Out("rename_server_group", new_name, -1, "already exists")
    ELSE IF ~contains(server_groups, group)
    THEN \* self.server_groups.pop(group_name) of a key that is gone
         /\ UNCHANGED <<username, server_groups, file>>
         /\ output' = Out("rename_server_group", new_name, -1, "KeyError")
    ELSE /\ server_groups' = setitem(delitem(server_groups, group), new_name,
                                     getitem(server_groups, group))
         /\ UNCHANGED username
         /\ file' = save_config(username, server_groups')
         /\ output' = Out("rename_server_group", new_name, -1, "renamed")

\* lower() of the texts typed at the confirmation prompt
lower(s) == IF s = "Y" THEN "y" ELSE s

\* delete_server_group taking any answer that starts with y for a yes
delete_server_group_prefix(group, confirm) ==
    IF lower(confirm) \notin {"y", "yes"}
    THEN /\ UNCHANGED <<username, server_groups, file>>
         /\ output' = Out("delete_server_group", confirm, -1, "Deletion cancelled")
    ELSE IF ~contains(server_groups, group)
    THEN /\ UNCHANGED <<username, server_groups, file>>
         /\ output' = Out("delete_server_group", confirm, -1, "KeyError")
    ELSE /\ server_groups' = delitem(server_groups, group)
         /\ UNCHANGED username
         /\ file' = save_config(username, server_groups')
         /\ output' = Out("delete_server_group", confirm, -1, "deleted")

delete_server_group(group, confirm) ==
    IF lower(confirm) # "y"
    THEN /\ UNCHANGED <<username, server_groups, file>>
         /\ output' = Out("delete_server_group", confirm, -1, "Deletion cancelled")
    ELSE IF ~contains(server_groups, group)
    THEN \* del self.server_groups[group_name] of a key that is gone
         /\ UNCHANGED <<username, server_groups, file>>
         /\ output' = Out("delete_server_group", confirm, -1, "KeyError")
    ELSE /\ server_groups' = delitem(server_groups, group)
         /\ UNCHANGED username
         /\ file' = save_config(username, server_groups')
         /\ output' = Out("delete_server_group", confirm, -1, "deleted")

\* import_config reading server_groups as load_config does, with a default
import_config_defaulted(doc) ==
    IF doc.kind = "missing"
    THEN /\ UNCHANGED <<username, server_groups, file>>
         /\ output' = Out("import_config", doc.kind, -1, "File not found")
    ELSE IF doc.kind = "garbage"
    THEN /\ UNCHANGED <<username, server_groups, file>>
         /\ output' = Out("import_config", doc.kind, -1, "Error importing configuration")
    ELSE IF doc.kind # "object"
    THEN /\ UNCHANGED <<username, server_groups, file>>
         /\ output' = Out("import_config", doc.kind, -1, "Invalid configuration format")
    ELSE /\ username' = IF doc.hasUser THEN doc.user ELSE username
         /\ server_groups' = IF doc.hasGroups THEN json_load(doc.groups) ELSE PyDict(<<>>)
         /\ file' = save_config(username', server_groups')
         /\ output' = Out("import_config", doc.groups.kind, -1, "imported successfully")

\* doc is what the typed import path holds
import_config(doc) ==
    IF doc.kind = "missing"
    THEN /\ UNCHANGED <<username, server_groups, file>>
         /\ output' = Out("import_config", doc.kind, -1, "File not found")
    ELSE IF doc.kind = "garbage"
    THEN /\ UNCHANGED <<username, server_groups, file>>
         /\ output' = Out("import_config", doc.kind, -1, "Error importing configuration")
    ELSE IF doc.kind # "object" \/ ~doc.hasGroups
    THEN /\ UNCHANGED <<username, server_groups, file>>
         /\ output' = Out("import_config", doc.kind, -1, "Invalid configuration format")
    ELSE /\ username' = IF doc.hasUser THEN doc.user ELSE username
         /\ server_groups' = json_load(doc.groups)
         /\ file' = save_config(username', server_groups')
         /\ output' = Out("import_config", doc.groups.kind, -1, "imported successfully")

ConfigPath == "~/.ssh_connector/config.json"
ExportPaths == {"", ConfigPath}

\* only an export onto the config path itself changes a file the program reads
export_config(export_path) ==
    /\ UNCHANGED <<username, server_groups>>
    /\ file' = IF export_path = ConfigPath THEN save_config(username, server_groups) ELSE file
    /\ output' = Out("export_config", export_path, -1, "exported")

show_help ==
    /\ UNCHANGED <<username, server_groups, file>>
    /\ output' = Out("show_help", "", -1, "")

\* status is what subprocess.call returns, -1 when it raises instead
\* connect_to_server with the login name of the environment in the ssh argument
connect_to_server_default(server, status) ==
    /\ UNCHANGED <<username, server_groups, file>>
    /\ output' = Out("connect_to_server", get_default_username \o "@" \o server, status,
                     IF status = -1 THEN "Error connecting to server" ELSE "SSH session ended")

\* the argument of ssh is f"{self.username}@{server}"
connect_to_server(server, status) ==
    /\ UNCHANGED <<username, server_groups, file>>
    /\ output' = Out("connect_to_server", username \o "@" \o server, status,
                     IF status = -1 THEN "Error connecting to server" ELSE "SSH session ended")

----------------------------------------------------------------------------
(* NavigationController: one action per screen, a valid selection and its dispatch. *)

\* where control is after a call made from a screen: an uncaught exception leaves
\* through every frame to the interpreter, which exits with status 1
Return(screen) ==
    /\ pc' = IF output'.msg \in Uncaught THEN "crashed" ELSE screen
    /\ exit_code' = IF output'.msg \in Uncaught THEN 1 ELSE exit_code
    /\ edits' = IF <<username', server_groups'>> # <<username, server_groups>>
                THEN edits + 1 ELSE edits
    /\ edits' <= MaxEdits

\* SSHConnector() in main(): __init__ runs load_config, then main_menu starts
Startup ==
    /\ pc = "start"
    /\ load_config
    /\ pc' = IF output'.msg \in Uncaught THEN "crashed" ELSE "main"
    /\ exit_code' = IF output'.msg \in Uncaught THEN 1 ELSE exit_code
    /\ UNCHANGED <<group_name, writable, edits>>

MainOptions ==
    <<"Server Groups", "Change Username", "Import Configuration", "Export Configuration",
      "Help", "Exit">>

main_menu ==
    /\ pc = "main"
    /\ \E inp \in MenuInputs(MainOptions) :
         LET choice == display_menu(MainOptions, inp)
         IN  \/ /\ choice = 0
                \* server_groups_menu starts with list(self.server_groups.keys())
                /\ output' = Out("server_groups_menu", "", -1,
                                 IF server_groups.kind = "dict" THEN "" ELSE "AttributeError")
                /\ UNCHANGED <<username, server_groups, file>>
                /\ Return("groups")
             \/ /\ choice = 1
                /\ \E new_username \in UsernameInputs : change_username(new_username)
                /\ Return("main")
             \/ /\ choice = 2
                /\ \E doc \in Documents \cup {file} : import_config(doc)
                /\ Return("main")
             \/ /\ choice = 3
                /\ \E export_path \in ExportPaths : export_config(export_path)
                /\ Return("main")
             \/ /\ choice = 4
                /\ show_help
                /\ Return("main")
             \/ /\ choice = 5
                \* sys.exit(0)
                /\ output' = Out("main_menu", "", -1, "Goodbye!")
                /\ pc' = "exited"
                /\ exit_code' = 0
                /\ UNCHANGED <<username, server_groups, file, edits>>
    /\ UNCHANGED <<group_name, writable>>

GroupsOptions == keys(server_groups) \o <<"Add New Group", "Back to Main Menu">>

server_groups_menu ==
    /\ pc = "groups"
    /\ \E inp \in MenuInputs(GroupsOptions) :
         LET groups == keys(server_groups)
             choice == display_menu(GroupsOptions, inp)
         IN  \/ /\ 0 <= choice /\ choice < Len(groups)
                /\ group_name' = groups[choice + 1]
                /\ output' = Out("server_group_menu", groups[choice + 1], choice, "")
                /\ UNCHANGED <<username, server_groups, file>>
                /\ Return("detail")
             \/ /\ choice = Len(groups)
                /\ \E new_group \in GroupInputs : add_server_group(new_group)
                /\ UNCHANGED group_name
                /\ Return("groups")
             \/ /\ choice > Len(groups)
                /\ output' = NoOutput
                /\ UNCHANGED <<group_name, username, server_groups, file>>
                /\ Return("main")
    /\ UNCHANGED writable

\* servers = self.server_groups.get(group_name, [])
DetailServers == get(server_groups, group_name, <<>>)
DetailOptions == DetailServers \o <<"Manage Group", "Back to Server Groups">>

server_group_menu ==
    /\ pc = "detail"
    /\ \E inp \in MenuInputs(DetailOptions) :
         LET servers == DetailServers
             choice == display_menu(DetailOptions, inp)
         IN  \/ /\ 0 <= choice /\ choice < Len(servers)
                /\ \E status \in SshOutcomes : connect_to_server(servers[choice + 1], status)
                /\ UNCHANGED group_name
                /\ Return("detail")
             \/ /\ choice = Len(servers)
                /\ output' = Out("manage_server_group", group_name, -1, "")
                /\ UNCHANGED <<group_name, username, server_groups, file>>
                /\ Return("manage")
             \/ /\ choice > Len(servers)
                /\ output' = NoOutput
                /\ group_name' = ""
                /\ UNCHANGED <<username, server_groups, file>>
                /\ Return("groups")
    /\ UNCHANGED writable

ManageOptions ==
    <<"Add server", "Remove server", "Rename", "Delete", "Back to Server Groups">>

manage_server_group ==
    /\ pc = "manage"
    /\ \E inp \in MenuInputs(ManageOptions) :
         LET choice == display_menu(ManageOptions, inp)
         IN  \/ /\ choice = 0
                /\ \E server \in ServerInputs : add_server(group_name, server)
                /\ Return("manage")
             \/ /\ choice = 1
                /\ \E inp2 \in MenuInputs(Append(DetailServers, "Cancel")) :
                        remove_server(group_name, inp2)
                /\ Return("manage")
             \/ /\ choice = 2
                /\ \E new_name \in GroupInputs : rename_server_group(group_name, new_name)
                \* return  # Exit after renaming: back in server_group_menu's loop
                /\ Return("detail")
             \/ /\ choice = 3
                /\ \E confirm \in ConfirmInputs : delete_server_group(group_name, confirm)
                \* if self.delete_server_group(group_name): return
                /\ Return(IF output'.msg = "deleted" THEN "detail" ELSE "manage")
             \/ /\ choice = 4
                /\ output' = NoOutput
                /\ UNCHANGED <<username, server_groups, file>>
                /\ Return("detail")
    /\ UNCHANGED <<group_name, writable>>

Menus == {"main", "groups", "detail", "manage"}

\* the options of the menu on screen
Options ==
    CASE pc = "main" -> MainOptions
      [] pc = "groups" -> GroupsOptions
      [] pc = "detail" -> DetailOptions
      [] OTHER -> ManageOptions

\* display_menu's loop on a line that is no number or no index of the menu
display_menu_again ==
    /\ pc \in Menus
    /\ \E inp \in MenuInputs(Options) :
         /\ display_menu(Options, inp) = -1
         /\ output' = Out("display_menu", "", -1,
                          IF inp.num THEN "Invalid choice" ELSE "Please enter a number")
    /\ UNCHANGED <<pc, group_name, username, server_groups, file, writable, exit_code, edits>>

\* main()'s handler of KeyboardInterrupt with a save_config before sys.exit(0)
KeyboardInterrupt_saves ==
    /\ pc \in Menus \cup {"start"}
    /\ pc' = "exited"
    /\ exit_code' = 0
    /\ output' = Out("main", "", -1, "Program interrupted")
    /\ group_name' = ""
    /\ file' = IF writable THEN save_config(username, server_groups) ELSE file
    /\ UNCHANGED <<username, server_groups, writable, edits>>

\* Ctrl-C at a prompt: main() catches KeyboardInterrupt and calls sys.exit(0)
KeyboardInterrupt ==
    /\ pc \in Menus \cup {"start"}
    /\ pc' = "exited"
    /\ exit_code' = 0
    /\ output' = Out("main", "", -1, "Program interrupted")
    \* the frames of the menus are unwound
    /\ group_name' = ""
    /\ UNCHANGED <<username, server_groups, file, writable, edits>>

Init ==
    /\ pc = "start"
    /\ group_name = ""
    /\ username = get_default_username
    /\ server_groups = PyDict(<<>>)
    /\ file \in Documents
    /\ writable \in BOOLEAN
    /\ output = NoOutput
    /\ exit_code = -1
    /\ edits = 0

Next ==
    \/ Startup
    \/ main_menu
    \/ server_groups_menu
    \/ server_group_menu
    \/ manage_server_group
    \/ display_menu_again
    \/ KeyboardInterrupt

Spec == Init /\ [][Next]_vars

----------------------------------------------------------------------------
(* Save and load on their own: a Configuration is saved, the process ends, *)
(* and a new process loads what the path holds.                            *)

\* what a new process holds in memory once __init__ has run load_config on doc
reload(doc) ==
    IF doc.kind \in {"missing", "garbage"}
    THEN [username |-> get_default_username, server_groups |-> DefaultGroups]
    ELSE IF doc.kind # "object"
    THEN [username |-> get_default_username, server_groups |-> PyDict(<<>>)]
    ELSE [username |-> IF doc.hasUser THEN doc.user ELSE get_default_username,
          server_groups |-> IF doc.hasGroups THEN json_load(doc.groups) ELSE PyDict(<<>>)]

\* the Configuration in memory
Configuration == [username |-> username, server_groups |-> server_groups]

\* the longest mapping and the longest host list of the Configurations saved
MaxLen == 2
GroupNames == {"Development", "Staging", "Web"}
HostNames == {"web-1", "web-2", "staging-1.example.com"}

\* the sequences without repeats of at most n elements of S
UniqueSeqs(S, n) ==
    UNION { {s \in [1..k -> S] : \A i, j \in 1..k : s[i] = s[j] => i = j} : k \in 0..n }

\* the valid Configurations' mappings: distinct names, each with distinct hostnames
ValidGroups ==
    UNION { { PyDict([i \in 1..Len(ks) |-> Entry(ks[i], hs[i])]) :
                hs \in [1..Len(ks) -> UniqueSeqs(HostNames, MaxLen)] } :
            ks \in UniqueSeqs(GroupNames, MaxLen) }

RoundTripInit ==
    /\ pc = "configured"
    /\ group_name = ""
    /\ username \in {get_default_username, "bob"}
    /\ server_groups \in ValidGroups
    /\ file = Missing
    /\ writable = TRUE
    /\ output = NoOutput
    /\ exit_code = -1
    /\ edits = 0

\* self.save_config()
Save ==
    /\ pc = "configured"
    /\ file' = save_config(username, server_groups)
    /\ pc' = "saved"
    /\ output' = Out("save_config", "", -1, "Configuration saved")
    /\ UNCHANGED <<group_name, username, server_groups, writable, exit_code, edits>>

\* the process ends and the program is started again: SSHConnector.__init__ up to load_config
Restart ==
    /\ pc = "saved"
    /\ pc' = "start"
    /\ username' = get_default_username
    /\ server_groups' = PyDict(<<>>)
    /\ output' = NoOutput
    /\ UNCHANGED <<group_name, file, writable, exit_code, edits>>

RoundTripNext ==
    \/ Save
    \/ Restart
    \/ Startup

RoundTripSpec == RoundTripInit /\ [][RoundTripNext]_vars

----------------------------------------------------------------------------
(* Properties. *)

\* no key occurs twice in the mapping
UniqueGroups ==
    server_groups.kind = "dict" =>
        \A i, j \in 1..Len(server_groups.items) :
            server_groups.items[i].k = server_groups.items[j].k => i = j

\* no hostname occurs twice in a group's list
UniqueHosts ==
    server_groups.kind = "dict" =>
        \A g \in 1..Len(server_groups.items) :
            \A i, j \in 1..Len(server_groups.items[g].v) :
                server_groups.items[g].v[i] = server_groups.items[g].v[j] => i = j

\* C1 as stated: in every reachable state group names are unique and no group's
\* list holds a hostname twice.
C1_Original == UniqueGroups /\ UniqueHosts

\* C1, amended: group names are unique in every reachable state, and every menu
\* operation other than import keeps hostnames unique within each group: if no
\* list holds a hostname twice before it, none does after it.
C1_UniquenessKept ==
    [][ /\ UniqueGroups'
        /\ (/\ pc # "start" /\ output'.op # "import_config"
            /\ server_groups' # server_groups
            /\ UniqueHosts) => UniqueHosts' ]_vars

C1_Witness ==
    /\ output.op = "add_server" /\ output.msg = "added"
    /\ Len(getitem(server_groups, group_name)) >= 2
    /\ UniqueHosts

\* C2: after a successful rename or a confirmed delete the next menu on screen
\* is the list of groups.
C2_BackToGroups ==
    (output.op \in {"rename_server_group", "delete_server_group"}
        /\ output.msg \in {"renamed", "deleted"}) => pc = "groups"

\* C3: whenever the menu of a group or its manage menu awaits a selection, that
\* group is a key of the mapping.
C3_ViewedGroupExists ==
    pc \in {"detail", "manage"} => contains(server_groups, group_name)

\* C4: once startup has succeeded the process never ends through an uncaught
\* error; here for the runs in which server_groups is a mapping, where the
\* operations on a group are the only ones that look a group up.
C4_NoUncaughtError ==
    (pc = "crashed" /\ server_groups.kind = "dict") => output.op = "load_config"

\* the document at the config path holds the username and the groups in memory
Persisted ==
    /\ file.kind = "object"
    /\ file.hasUser /\ file.user = username
    /\ file.hasGroups /\ json_load(file.groups) = server_groups

\* C5: while writes to the config path succeed, once an operation has changed
\* the Configuration the persisted document equals the Configuration in memory
\* at every prompt.
C5_WriteThrough == (writable /\ edits > 0) => Persisted

C5_Witness ==
    /\ writable /\ edits >= 2 /\ pc = "detail"
    /\ output.op = "rename_server_group" /\ output.msg = "renamed"

\* C6: adding a group under a name that is already a key changes neither the
\* mapping nor the file; adding to a group a hostname its list already holds
\* changes neither that list nor the file.
C6_DuplicatesRejected ==
    [][ /\ (output'.op = "add_server_group" /\ contains(server_groups, output'.arg))
            => (server_groups' = server_groups /\ file' = file)
        /\ (/\ output'.op = "add_server"
            /\ contains(server_groups, group_name)
            /\ InList(getitem(server_groups, group_name), output'.arg))
            => (/\ getitem(server_groups', group_name) = getitem(server_groups, group_name)
                /\ file' = file) ]_vars

C6_Witness ==
    /\ output.op = "add_server_group" /\ output.msg = "already exists"
    /\ contains(server_groups, output.arg)
    /\ getitem(server_groups, output.arg) # <<>>

\* the entries of the mapping other than that of key k, in order
Others(d, k) == SelectSeq(d.items, LAMBDA e : e.k # k)

\* C7: renaming group A (a key) to a name that is already a key, A included,
\* changes nothing; renaming it to an unused name C that is not blank removes key
\* A and inserts key C with A's list, and every other group keeps its list.
C7_RenameSafety ==
    [][ (output'.op = "rename_server_group" /\ contains(server_groups, group_name)) =>
            LET new_name == output'.arg
            IN  IF contains(server_groups, new_name)
                THEN server_groups' = server_groups /\ file' = file
                ELSE new_name # "" =>
                        /\ ~contains(server_groups', group_name)
                        /\ contains(server_groups', new_name)
                        /\ getitem(server_groups', new_name) = getitem(server_groups, group_name)
                        /\ Others(server_groups', new_name) = Others(server_groups, group_name) ]_vars

C7_Witness ==
    /\ output.op = "rename_server_group" /\ output.msg = "renamed"
    /\ Len(getitem(server_groups, output.arg)) >= 2
    /\ Len(server_groups.items) >= 2

\* C8: a delete changes the mapping only when the confirmation, lower-cased, is
\* "y"; on any other input the mapping and the file are unchanged and the manage
\* menu of the same group is next; on confirmation exactly the group's key goes
\* and the other groups keep their lists and order.
C8_DeleteConfirmed ==
    [][ output'.op = "delete_server_group" =>
            IF output'.arg \notin {"y", "Y"}
            THEN /\ server_groups' = server_groups /\ file' = file
                 /\ pc' = "manage" /\ group_name' = group_name
            ELSE contains(server_groups, group_name) =>
                    /\ ~contains(server_groups', group_name)
                    /\ server_groups'.items = Others(server_groups, group_name) ]_vars

C8_Witness ==
    /\ output.op = "delete_server_group" /\ output.msg = "deleted" /\ output.arg = "Y"
    /\ Len(server_groups.items) >= 2

\* a document that is no object, or an object without the server_groups key
BadShape(doc) == doc.kind \notin {"missing", "garbage"} /\ (doc.kind # "object" \/ ~doc.hasGroups)

\* C9: importing a document that is no object, or an object without
\* server_groups, fails with the format error, leaves the username and the groups
\* in memory and the config file unchanged, and the main menu is next.
C9_ImportRejected ==
    [][ \A doc \in Documents \cup {file} :
            (pc = "main" /\ BadShape(doc) /\ import_config(doc)) =>
                /\ UNCHANGED <<username, server_groups, file>>
                /\ output'.msg = "Invalid configuration format"
                /\ pc' = "main" ]_vars

C9_Witness ==
    /\ output.op = "import_config" /\ output.msg = "Invalid configuration format"
    /\ pc = "main" /\ edits > 0

\* C10: a document is imported only if its server_groups is a mapping, so after
\* an import that succeeded the groups in memory are a mapping.
C10_ImportsOnlyMappings ==
    (output.op = "import_config" /\ output.msg = "imported successfully")
        => server_groups.kind = "dict"

\* C11: saving a valid Configuration and loading from the same path gives the
\* same username, the same group names in the same order and the same host
\* lists in the same order: what a new process loads from the saved document is
\* the Configuration that was saved, and is what load_config leaves in memory.
C11_RoundTrip ==
    /\ pc = "saved" => reload(file) = Configuration
    /\ (pc = "main" /\ output.op = "load_config") => Configuration = reload(file)

C11_Witness ==
    /\ pc = "main" /\ output.op = "load_config" /\ output.msg = "loaded"
    /\ username = "bob"
    /\ keys(server_groups) = <<"Web", "Development">>
    /\ getitem(server_groups, "Web") = <<"web-2", "web-1">>

\* the three built-in groups in their order, each with its two hostnames
BuiltIn(groups) ==
    /\ groups.kind = "dict"
    /\ keys(groups) = <<"Development", "Production", "Database">>
    /\ getitem(groups, "Development") = <<"dev-server-1.example.com", "dev-server-2.example.com">>
    /\ getitem(groups, "Production") = <<"prod-server-1.example.com", "prod-server-2.example.com">>
    /\ getitem(groups, "Database") = <<"db-server-1.example.com", "db-server-2.example.com">>

\* C12 as stated: a startup with no file at the config path leaves the three
\* built-in groups in memory and in the persisted file before the first menu.
C12_Original ==
    [][ (pc = "start" /\ file.kind = "missing" /\ pc' # "exited") =>
            (pc' = "main" /\ BuiltIn(server_groups') /\ Persisted') ]_vars

\* C12, amended: the same, the persisted file holding the Configuration provided
\* the write to the config path succeeds.
C12_DefaultSynthesis ==
    [][ (pc = "start" /\ file.kind = "missing" /\ pc' # "exited") =>
            (pc' = "main" /\ BuiltIn(server_groups') /\ (writable => Persisted')) ]_vars

C12_Witness ==
    /\ pc = "main" /\ output.op = "load_config" /\ output.msg = "created default"
    /\ writable /\ Persisted /\ Len(server_groups.items) = 3

\* the step adds a new group under the name typed
AddsGroup == output'.op = "add_server_group" /\ output'.arg # "" /\ ~contains(server_groups, output'.arg)

\* the step adds the hostname typed to the viewed group, whose list is empty
AddsFirstHost ==
    /\ output'.op = "add_server" /\ output'.arg # ""
    /\ contains(server_groups, group_name) /\ getitem(server_groups, group_name) = <<>>

\* what a new process loads from the persisted file after the step is the
\* Configuration in memory after it, which is: for a group added, the groups
\* before the step followed by the new group, empty; for a first host added,
\* the groups before the step with the viewed group's list the host alone
ReloadsAdded ==
    /\ AddsGroup =>
          /\ reload(file') = Configuration'
          /\ reload(file').server_groups.items =
                Append(server_groups.items, Entry(output'.arg, <<>>))
    /\ AddsFirstHost =>
          /\ reload(file') = Configuration'
          /\ reload(file').server_groups.items =
                [server_groups.items EXCEPT ![IndexOf(server_groups, group_name)] =
                    Entry(group_name, <<output'.arg>>)]

\* C13 as stated: after a new group N and then a host h are added, a new load
\* from the persisted file has N last, N's list [h] and the other groups as before.
C13_Original == [][ReloadsAdded]_vars

\* C13, amended: the same, provided the writes to the config path succeed.
C13_AddThenReload == [][writable => ReloadsAdded]_vars

C13_Witness ==
    /\ output.op = "add_server" /\ output.msg = "added" /\ writable
    /\ keys(reload(file).server_groups) = <<"Development", "Production", "Database", "Staging">>
    /\ getitem(reload(file).server_groups, "Staging") = <<"staging-1.example.com">>
    /\ SubSeq(reload(file).server_groups.items, 1, 3) = DefaultGroups.items

\* what display_menu does with line inp at the menu on screen: it returns k-1
\* exactly when inp is a number k of 1..n, and otherwise prompts again
ValidSelection(inp) ==
    LET n == Len(Options)
        r == display_menu(Options, inp)
    IN  /\ (inp.num /\ 1 <= inp.val /\ inp.val <= n) => r = inp.val - 1
        /\ r # -1 => (inp.num /\ r = inp.val - 1 /\ 0 <= r /\ r <= n - 1)
        /\ ~(inp.num /\ 1 <= inp.val /\ inp.val <= n) => r = -1

\* C14: at every menu the prompt returns k-1 exactly for a number k of 1..n, so
\* in 0..n-1, and a line that is no such number prompts the same menu again
\* with the Configuration, the file and the screen as they were.
C14_ValidSelectionOnly ==
    [][ output'.op = "display_menu" =>
          /\ pc \in Menus /\ Len(Options) >= 1
          /\ \A inp \in MenuInputs(Options) : ValidSelection(inp)
          /\ pc' = pc /\ UNCHANGED <<group_name, username, server_groups, file>> ]_vars

C14_Witness ==
    /\ pc = "manage" /\ output.op = "display_menu" /\ output.msg = "Invalid choice"
    /\ edits > 0 /\ contains(server_groups, group_name)

\* the step is main()'s handling of an interrupt
Interrupted == output'.op = "main" /\ output'.msg = "Program interrupted"

\* C15: an interrupt can arrive at every screen and ends the process with
\* status 0 and the persisted file as it was; Exit of MainMenu ends it with
\* status 0, and a step that ends the process without an interrupt or an
\* uncaught error is Exit, selected in MainMenu.
C15_InterruptAndExit ==
    [][ /\ pc \in Menus => ENABLED KeyboardInterrupt
        /\ Interrupted => (pc' = "exited" /\ exit_code' = 0 /\ file' = file)
        /\ (pc' = "exited" /\ ~Interrupted) =>
              /\ pc = "main" /\ "Exit" \in {Options[i] : i \in 1..Len(Options)}
              /\ output'.msg = "Goodbye!" /\ exit_code' = 0 /\ file' = file
        /\ (pc \in Menus \ {"main"}) => "Exit" \notin {Options[i] : i \in 1..Len(Options)} ]_vars

C15_Witness ==
    /\ pc = "exited" /\ exit_code = 0 /\ output.msg = "Program interrupted"
    /\ edits > 0 /\ ~Persisted

\* the line typed to select option k of a menu
Select(k) == [num |-> TRUE, val |-> k]

\* C16: a connection launched from the menu of group g is for the hostname at
\* the selected position of g's list, with the current username; whatever
\* ssh's outcome, the Configuration and the file are as before and the screen
\* after the step is the menu of g again.
C16_ConnectLeavesState ==
    [][ output'.op = "connect_to_server" =>
          /\ pc = "detail" /\ pc' = "detail" /\ group_name' = group_name
          /\ UNCHANGED <<username, server_groups, file>>
          /\ output'.idx \in SshOutcomes
          /\ \E k \in 1..Len(DetailServers) :
                /\ display_menu(DetailOptions, Select(k)) = k - 1
                /\ output'.arg = username \o "@" \o DetailServers[k]
          /\ \A k \in 1..Len(DetailServers) :
                DetailServers[display_menu(DetailOptions, Select(k)) + 1] = DetailOptions[k] ]_vars

C16_Witness ==
    /\ pc = "detail" /\ group_name = "Staging"
    /\ output.op = "connect_to_server" /\ output.idx = -1
    /\ output.arg = "bob@staging-1.example.com"

\* messages of the operations that change the Configuration and then save it
Mutated == {"added successfully", "added", "removed", "renamed", "deleted"}

\* C17: with a config path that cannot be written, an operation that mutates
\* the Configuration leaves the process running at a menu with the mutation in
\* memory; for a group added, memory is the groups before with the new group
\* last and the screen is the list of groups.
C17_WriteFailureNotFatal ==
    [][ (~writable /\ pc \in Menus) =>
          /\ output'.msg \in Mutated \cup {"Username changed", "imported successfully"} =>
                (pc' \in Menus /\ exit_code' = exit_code)
          /\ output'.msg \in Mutated => server_groups' # server_groups
          /\ output'.msg = "Username changed" => username' = output'.arg
          /\ AddsGroup =>
                /\ output'.msg = "added successfully" /\ pc' = "groups"
                /\ server_groups' = setitem(server_groups, output'.arg, <<>>) ]_vars

C17_Witness ==
    /\ ~writable /\ pc = "groups" /\ output.msg = "added successfully"
    /\ keys(server_groups) = <<"Development", "Production", "Database", "Staging">>
    /\ file.kind = "missing"

\* the step is an operation of ManageGroupMenu that was rejected: a blank or
\* repeated hostname, a blank or used new name, a deletion not confirmed
Rejected ==
    /\ pc = "manage"
    /\ \/ output'.op = "add_server" /\ output'.msg \in {"Server cannot be empty", "already exists"}
       \/ output'.op = "rename_server_group" /\ output'.msg \in {"Rename cancelled", "already exists"}
       \/ output'.op = "delete_server_group" /\ output'.msg = "Deletion cancelled"

\* C18: an operation of ManageGroupMenu(g) that is rejected changes neither the
\* Configuration nor the file, and the screen after it is ManageGroupMenu(g) again.
C18_RejectedRedisplays ==
    [][ Rejected =>
          /\ UNCHANGED <<username, server_groups, file>>
          /\ pc' = "manage" /\ group_name' = group_name ]_vars

\* the list of the group on screen, and the position chosen in the removal list
Servers == getitem(server_groups, group_name)
Chosen == output'.idx + 1

\* the position of the first entry of list l equal to the one at position i
First(l, i) == CHOOSE f \in 1..i : l[f] = l[i] /\ \A j \in 1..(f - 1) : l[j] # l[i]

\* a removal step that deletes position at(list, chosen) of the list on screen:
\* Cancel changes nothing, and a position chosen leaves the list without that
\* one entry, the rest in order, and the other groups as they were
Removes(at(_, _)) ==
    (output'.op = "remove_server" /\ contains(server_groups, group_name)) =>
        /\ output'.idx = Len(Servers) => UNCHANGED <<username, server_groups, file>>
        /\ output'.msg = "removed" =>
              /\ Chosen \in 1..Len(Servers) /\ output'.arg = Servers[Chosen]
              /\ contains(server_groups', group_name)
              /\ getitem(server_groups', group_name) = RemoveAt(Servers, at(Servers, Chosen))
              /\ keys(server_groups') = keys(server_groups)
              /\ Others(server_groups', group_name) = Others(server_groups, group_name)
              /\ UNCHANGED username

Index(l, i) == i

\* C19 as stated: choosing position i of the removal list removes the entry at
\* index i of the group's list, for every list, repeated hostnames included.
C19_Original == [][Removes(Index)]_vars

\* C19, amended: choosing position i removes the first entry of the list equal
\* to the hostname at position i, which is index i when that hostname does not
\* come earlier in the list; Cancel changes nothing, the other entries keep
\* their order and no other group changes.
C19_RemovesFirstEqual ==
    [][ /\ Removes(First)
        /\ (output'.msg = "removed" /\ contains(server_groups, group_name)
              /\ \A j \in 1..(Chosen - 1) : Servers[j] # Servers[Chosen]) =>
                 getitem(server_groups', group_name) = RemoveAt(Servers, Chosen) ]_vars

C19_Witness ==
    /\ output.op = "remove_server" /\ output.msg = "removed"
    /\ output.idx = 2 /\ output.arg = "web-1"
    /\ group_name = "Web" /\ getitem(server_groups, "Web") = <<"web-2", "web-1">>

\* C20: the load at startup ends at the first menu without an uncaught error
\* for every content of the file, with the groups in memory a mapping; for a
\* file that is missing or is no JSON the mapping is the built-in default,
\* persisted when the path can be written.
C20_LoadTotal ==
    [][ (pc = "start" /\ output'.op = "load_config") =>
          /\ pc' = "main" /\ output'.msg \notin Uncaught
          /\ server_groups'.kind = "dict"
          /\ file.kind \in {"missing", "garbage"} =>
                (BuiltIn(server_groups') /\ (writable => Persisted')) ]_vars

====
